---- MODULE Spec2Model ----
(***************************************************************************)
(* midi-cable: the `mc fwd` forwarder process (main, handleForwardCommand, *)
(* NewForwarder, Forwarder.Start and its Listen callback), the message     *)
(* length validator isValidMIDIMessage, and the VirtualPort pair.          *)
(*                                                                         *)
(* Three specifications share the variables:                               *)
(*   Spec          the `mc` process from its command line to its exit      *)
(*   SpecValidate  isValidMIDIMessage and the Listen callback applied to   *)
(*                 every byte sequence over Bytes up to MaxValLen bytes    *)
(*   SpecVP        one VirtualPort: NewVirtualPort, Start, its callback    *)
(***************************************************************************)
EXTENDS Integers, Sequences, FiniteSets, TLC

(***************************************************************************)
(* Bounds                                                                  *)
(***************************************************************************)
\* longest byte sequence handed to the validator in SpecValidate
MaxValLen == 3
\* longest message delivered by the driver in Spec and SpecVP
MaxLen == 4
\* ports of one direction in an enumeration
MaxPorts == 2

(***************************************************************************)
(* Bytes.  A byte is a number in 0..255; the status bytes are written in   *)
(* decimal with the hexadecimal value in the comment.                      *)
(***************************************************************************)
\* data bytes 0x07 0x40 0x7F; channel voice 0x80 0x90 0x91 0xA0 0xB0 0xC0 0xD2
\* 0xE0; system 0xF0 0xF1 0xF2 0xF3 0xF6 0xF7 0xF8 0xFA 0xFB 0xFC
Bytes ==
    { 7, 64, 127,
      128, 144, 145, 160, 176, 192, 210, 224,
      240, 241, 242, 243, 246, 247, 248, 250, 251, 252 }

\* the messages the driver delivers to a Listen callback: nothing, or a
\* first byte 0x07 (no status), 0x90 (note on), 0xC0 (program change) or
\* 0xF8 (clock) followed by data bytes 0x07, 0x40
FirstBytes == { 7, 144, 192, 248 }

DataBytes == { 7, 64 }

SeqsUpTo(S, n) == UNION { [1..k -> S] : k \in 0..n }

Messages == SeqsUpTo(Bytes, MaxValLen)

DriverMessages ==
    { << >> } \cup
    { << b >> \o d : b \in FirstBytes, d \in SeqsUpTo(DataBytes, MaxLen - 1) }

\* b & 0xF0
HighNibble(b) == (b \div 16) * 16

\* msg[:n] for n <= len(msg)
Prefix(msg, n) == SubSeq(msg, 1, n)

(***************************************************************************)
(* isValidMIDIMessage (fwd.go).  Go indexes from 0: msg[0] is msg[1] here  *)
(* and msg[1] is msg[2].                                                   *)
(***************************************************************************)
isValidMIDIMessage_ChannelPressure3(msg) ==
    IF Len(msg) = 0 THEN FALSE
    ELSE LET status == HighNibble(msg[1]) IN
         CASE status \in {128, 144, 160, 176, 224, 208} -> Len(msg) = 3
           [] status = 192 -> Len(msg) = 2
           [] status = 240 ->
                IF Len(msg) < 2 THEN FALSE
                ELSE CASE msg[2] = 240 -> TRUE
                       [] msg[2] \in {241, 243} -> Len(msg) = 2
                       [] msg[2] = 242 -> Len(msg) = 3
                       [] msg[2] \in {246, 247, 248, 250, 251, 252} -> Len(msg) = 1
                       [] OTHER -> FALSE
           [] OTHER -> FALSE

isValidMIDIMessage(msg) ==
    IF Len(msg) = 0 THEN FALSE
    ELSE LET status == HighNibble(msg[1]) IN
         CASE status \in {128, 144, 160, 176, 224} -> Len(msg) = 3
           [] status \in {192, 208} -> Len(msg) = 2
           [] status = 240 ->
                IF Len(msg) < 2 THEN FALSE
                ELSE CASE msg[2] = 240 -> TRUE
                       [] msg[2] \in {241, 243} -> Len(msg) = 2
                       [] msg[2] = 242 -> Len(msg) = 3
                       [] msg[2] \in {246, 247, 248, 250, 251, 252} -> Len(msg) = 1
                       [] OTHER -> FALSE
           [] OTHER -> FALSE

(***************************************************************************)
(* The Listen callback of Forwarder.Start as a function of the message:    *)
(* the sequence of byte sequences it passes to mf.output.Send (empty, or   *)
(* one element).                                                           *)
(***************************************************************************)
ForwarderCallback_NoTruncate(msg) ==
    IF Len(msg) > 0
    THEN IF Len(msg) >= 2 /\ HighNibble(msg[1]) = 192
         THEN << msg >>
         ELSE IF isValidMIDIMessage(msg)
              THEN << msg >>
              ELSE << >>
    ELSE << >>

\* the program-change branch without its `else`: the message also reaches the
\* isValidMIDIMessage branch
ForwarderCallback_NoElse(msg) ==
    IF Len(msg) > 0
    THEN (IF Len(msg) >= 2 /\ HighNibble(msg[1]) = 192
          THEN << Prefix(msg, 2) >> ELSE << >>)
         \o (IF isValidMIDIMessage(msg) THEN << msg >> ELSE << >>)
    ELSE << >>

ForwarderCallback(msg) ==
    IF Len(msg) > 0
    THEN IF Len(msg) >= 2 /\ HighNibble(msg[1]) = 192
         THEN << Prefix(msg, 2) >>
         ELSE IF isValidMIDIMessage(msg)
              THEN << msg >>
              ELSE << >>
    ELSE << >>

(***************************************************************************)
(* The Listen callback of VirtualPort.Start: every message goes to         *)
(* vp.outPort.Send as received.                                            *)
(***************************************************************************)
VirtualPortCallback(msg) == << msg >>


(***************************************************************************)
(* State                                                                   *)
(***************************************************************************)
VARIABLES
    \* the `mc` process
    osArgs,       \* os.Args, the program name first
    pc,           \* position of the main goroutine
    exitCode,     \* Running, or the code the process exited with
    inputName,    \* handleForwardCommand's inputName
    outputName,   \* handleForwardCommand's outputName
    ins,          \* NewForwarder's ins: the display names, in enumeration order
    outs,         \* NewForwarder's outs
    input,        \* Forwarder.input: index into ins, 0 for nil
    output,       \* Forwarder.output: index into outs, 0 for nil
    nfErr,        \* the error NewForwarder returns
    fwdCreated,   \* a Forwarder value has been constructed
    sigReg,       \* signal.Notify(sigChan, ...) has been called
    sigChan,      \* number of signals buffered in sigChan (capacity 1)
    gpc,          \* position of the signal goroutine
    ctxDone,      \* ctx has been cancelled
    inOpen,       \* mf.input is open
    outOpen,      \* mf.output is open
    inCloses,     \* calls of mf.input.Close()
    outCloses,    \* calls of mf.output.Close()
    listening,    \* the Listen callback is registered and not yet stopped
    startErr,     \* the error Forwarder.Start returns
    waited,       \* Start has reached <-ctx.Done()
    msg,          \* the message of the latest callback invocation
    sent,         \* what that invocation passed to mf.output.Send
    sendOk,       \* whether that Send returned nil
    gotMsg,       \* the callback has been invoked
    sendFailed,   \* an "Error forwarding" line has been logged
    \* isValidMIDIMessage and the callback, applied to one byte sequence
    vIn, vChecked, vValid, vHandled, vSends,
    \* one VirtualPort
    vpPc,         \* position of the goroutine that creates and starts it
    vpErr,        \* the error NewVirtualPort or Start returned
    vpInOpen,     \* vp.inPort is open
    vpOutOpen,    \* vp.outPort is open
    vpCtxDone,    \* vp.ctx has been cancelled
    vpListening,  \* the callback is registered and not yet stopped
    vpMsg,        \* the message of the latest callback invocation
    vpSent,       \* what that invocation passed to vp.outPort.Send
    vpSendOk,     \* whether that Send returned nil
    vpGotMsg      \* the callback has been invoked

procVars ==
    << osArgs, pc, exitCode, inputName, outputName, ins, outs, input, output,
       nfErr, fwdCreated, sigReg, sigChan, gpc, ctxDone, inOpen, outOpen,
       inCloses, outCloses, listening, startErr, waited,
       msg, sent, sendOk, gotMsg, sendFailed >>

valVars == << vIn, vChecked, vValid, vHandled, vSends >>

vpVars ==
    << vpPc, vpErr, vpInOpen, vpOutOpen, vpCtxDone, vpListening,
       vpMsg, vpSent, vpSendOk, vpGotMsg >>

VARIABLES
    \* the calls of the Listen callback of Forwarder.Start, in order
    fRecv,        \* the messages the driver delivered
    fSent         \* the calls of mf.output.Send: [idx |-> position in fRecv
                  \* of the message being handled, bytes |-> the argument]

logVars == << fRecv, fSent >>

VARIABLES
    \* the connection manager of the TUI application
    snapshot,     \* the port names of the latest registry refresh
    conns         \* the connections, by id (position): records of ConnInit

mgrVars == << snapshot, conns >>

VARIABLES
    \* a pipe worker, its stdin pipe and the owner of the write handle
    pwState,      \* Spawned, Reading, Forwarding, Exited
    pwExit,       \* the worker's exit code, Running until it has exited
    pwKills,      \* kill signals sent to the worker
    wOpen,        \* the owner holds the write end of the pipe
    pipe,         \* the bytes written and not yet read
    pwCur,        \* the bytes of the worker's latest read
    pwWritten,    \* the messages the callback has written
    pwDecoded     \* the messages the worker has handled

pipeVars == << pwState, pwExit, pwKills, wOpen, pipe, pwCur, pwWritten, pwDecoded >>

VARIABLES
    \* the targets of one virtual input
    fanInProc,    \* input_outputs_a: the in-process targets
    fanPipes,     \* pipe_workers_a: the stdin handles of pipe workers
    fanValid      \* valid messages the callback has handled

fanVars == << fanInProc, fanPipes, fanValid >>

VARIABLES
    \* the startup of the application
    barPc,        \* created, polling, wiring, done
    barElapsed,   \* milliseconds spent polling
    barVisible,   \* the virtual ports the system enumerates
    barSeen,      \* the latest enumeration the monitor has read
    barDegraded,  \* the barrier was left on timeout
    barLog,       \* the lines logged
    barWired      \* the default connections were attempted

barVars == << barPc, barElapsed, barVisible, barSeen, barDegraded, barLog, barWired >>

otherVars == << logVars, mgrVars, pipeVars, fanVars, barVars >>

vars == << procVars, valVars, vpVars, otherVars >>

\* exitCode of a process that has not exited
Running == 0 - 1

\* display names of MIDI ports
Names == { "A", "B" }

\* an enumeration of one direction: display names in enumeration order; two
\* ports may carry the same name
PortLists == SeqsUpTo(Names, MaxPorts)

\* command lines
ArgVectors ==
    { << "mc" >>, << "mc", "list" >>, << "mc", "bogus" >>,
      << "mc", "fwd" >>, << "mc", "fwd", "A" >>,
      << "mc", "fwd", "A", "B" >>, << "mc", "fwd", "A", "A" >> }

(***************************************************************************)
(* The states in which a part of the model is not running.                 *)
(***************************************************************************)
ProcIdle ==
    /\ osArgs = << "mc" >> /\ pc = "off" /\ exitCode = Running
    /\ inputName = "" /\ outputName = ""
    /\ ins = << >> /\ outs = << >> /\ input = 0 /\ output = 0
    /\ nfErr = "" /\ fwdCreated = FALSE
    /\ sigReg = FALSE /\ sigChan = 0 /\ gpc = "off" /\ ctxDone = FALSE
    /\ inOpen = FALSE /\ outOpen = FALSE /\ inCloses = 0 /\ outCloses = 0
    /\ listening = FALSE /\ startErr = "" /\ waited = FALSE
    /\ msg = << >> /\ sent = << >> /\ sendOk = TRUE /\ gotMsg = FALSE /\ sendFailed = FALSE

ValIdle ==
    /\ vIn = << >> /\ vChecked = FALSE /\ vValid = FALSE
    /\ vHandled = FALSE /\ vSends = << >>

VPIdle ==
    /\ vpPc = "off" /\ vpErr = "" /\ vpInOpen = FALSE /\ vpOutOpen = FALSE
    /\ vpCtxDone = FALSE /\ vpListening = FALSE
    /\ vpMsg = << >> /\ vpSent = << >> /\ vpSendOk = TRUE /\ vpGotMsg = FALSE

LogIdle == fRecv = << >> /\ fSent = << >>

MgrIdle == snapshot = { } /\ conns = << >>

PipeIdle ==
    /\ pwState = "none" /\ pwExit = Running /\ pwKills = 0 /\ wOpen = FALSE
    /\ pipe = << >> /\ pwCur = << >> /\ pwWritten = << >> /\ pwDecoded = << >>

FanIdle == fanInProc = << >> /\ fanPipes = << >> /\ fanValid = 0

BarIdle ==
    /\ barPc = "none" /\ barElapsed = 0 /\ barVisible = { } /\ barSeen = { }
    /\ barDegraded = FALSE /\ barLog = << >> /\ barWired = FALSE

OtherIdle == LogIdle /\ MgrIdle /\ PipeIdle /\ FanIdle /\ BarIdle

(***************************************************************************)
(* SpecValidate: the validator and the forwarder's callback as functions.  *)
(***************************************************************************)
InitValidate ==
    /\ ProcIdle /\ VPIdle /\ OtherIdle
    /\ vIn \in Messages
    /\ vChecked = FALSE /\ vValid = FALSE
    /\ vHandled = FALSE /\ vSends = << >>

\* v := isValidMIDIMessage(vIn)
Validate ==
    /\ ~vChecked
    /\ vChecked' = TRUE
    /\ vValid' = isValidMIDIMessage(vIn)
    /\ UNCHANGED << vIn, vHandled, vSends, procVars, vpVars, otherVars >>

\* the callback of Forwarder.Start runs on vIn
Handle ==
    /\ ~vHandled
    /\ vHandled' = TRUE
    /\ vSends' = ForwarderCallback(vIn)
    /\ UNCHANGED << vIn, vChecked, vValid, procVars, vpVars, otherVars >>

NextValidate == Validate \/ Handle

SpecValidate == InitValidate /\ [][NextValidate]_vars


(***************************************************************************)
(* Spec: the `mc` process.                                                 *)
(***************************************************************************)
Init ==
    /\ ValIdle /\ VPIdle /\ OtherIdle
    /\ osArgs \in ArgVectors
    /\ pc = "main" /\ exitCode = Running
    /\ inputName = "" /\ outputName = ""
    /\ ins = << >> /\ outs = << >> /\ input = 0 /\ output = 0
    /\ nfErr = "" /\ fwdCreated = FALSE
    /\ sigReg = FALSE /\ sigChan = 0 /\ gpc = "off" /\ ctxDone = FALSE
    /\ inOpen = FALSE /\ outOpen = FALSE /\ inCloses = 0 /\ outCloses = 0
    /\ listening = FALSE /\ startErr = "" /\ waited = FALSE
    /\ msg = << >> /\ sent = << >> /\ sendOk = TRUE /\ gotMsg = FALSE /\ sendFailed = FALSE

\* os.Exit(code), or main returning (code 0)
Exit(code) == /\ exitCode' = code
              /\ pc' = "exited"

\* index of the first element of list equal to name, 0 when there is none:
\* the `for ... range` loops of NewForwarder, which break at the first match
FindPort_LastMatch(list, name) ==
    IF \E i \in 1..Len(list) : list[i] = name
    THEN CHOOSE i \in 1..Len(list) :
            /\ list[i] = name
            /\ \A j \in (i+1)..Len(list) : list[j] # name
    ELSE 0

FindPort(list, name) ==
    IF \E i \in 1..Len(list) : list[i] = name
    THEN CHOOSE i \in 1..Len(list) :
            /\ list[i] = name
            /\ \A j \in 1..(i-1) : list[j] # name
    ELSE 0

\* main: the argument check and the command switch
main ==
    /\ pc = "main" /\ exitCode = Running
    /\ IF Len(osArgs) < 2
       THEN Exit(1)
       ELSE CASE osArgs[2] = "fwd"  -> pc' = "hfc" /\ UNCHANGED exitCode
              [] osArgs[2] = "list" -> pc' = "list" /\ UNCHANGED exitCode
              [] OTHER -> Exit(1)
    /\ UNCHANGED << osArgs, inputName, outputName, ins, outs, input, output,
                    nfErr, fwdCreated, sigReg, sigChan, gpc, ctxDone, inOpen,
                    outOpen, inCloses, outCloses, listening, startErr, waited,
                    msg, sent, sendOk, gotMsg, sendFailed, valVars, vpVars, otherVars >>

\* listPorts prints the enumeration (or logs the error) and returns; main
\* returns after it
listPorts ==
    /\ pc = "list" /\ exitCode = Running
    /\ Exit(0)
    /\ UNCHANGED << osArgs, inputName, outputName, ins, outs, input, output,
                    nfErr, fwdCreated, sigReg, sigChan, gpc, ctxDone, inOpen,
                    outOpen, inCloses, outCloses, listening, startErr, waited,
                    msg, sent, sendOk, gotMsg, sendFailed, valVars, vpVars, otherVars >>

\* handleForwardCommand up to the call of NewForwarder
handleForwardCommand ==
    /\ pc = "hfc" /\ exitCode = Running
    /\ IF Len(osArgs) < 4
       THEN /\ Exit(1)
            /\ UNCHANGED << inputName, outputName >>
       ELSE /\ inputName' = osArgs[3]
            /\ outputName' = osArgs[4]
            /\ pc' = "nf_ins"
            /\ UNCHANGED exitCode
    /\ UNCHANGED << osArgs, ins, outs, input, output,
                    nfErr, fwdCreated, sigReg, sigChan, gpc, ctxDone, inOpen,
                    outOpen, inCloses, outCloses, listening, startErr, waited,
                    msg, sent, sendOk, gotMsg, sendFailed, valVars, vpVars, otherVars >>

\* NewForwarder: ins, err := drivers.Ins()
NF_Ins ==
    /\ pc = "nf_ins" /\ exitCode = Running
    /\ \/ /\ nfErr' = "failed to get MIDI inputs"
          /\ pc' = "nf_return"
          /\ UNCHANGED ins
       \/ /\ ins' \in PortLists
          /\ pc' = "nf_outs"
          /\ UNCHANGED nfErr
    /\ UNCHANGED << osArgs, exitCode, inputName, outputName, outs, input,
                    output, fwdCreated, sigReg, sigChan, gpc, ctxDone, inOpen,
                    outOpen, inCloses, outCloses, listening, startErr, waited,
                    msg, sent, sendOk, gotMsg, sendFailed, valVars, vpVars, otherVars >>

\* NewForwarder: outs, err := drivers.Outs()
NF_Outs ==
    /\ pc = "nf_outs" /\ exitCode = Running
    /\ \/ /\ nfErr' = "failed to get MIDI outputs"
          /\ pc' = "nf_return"
          /\ UNCHANGED outs
       \/ /\ outs' \in PortLists
          /\ pc' = "nf_findin"
          /\ UNCHANGED nfErr
    /\ UNCHANGED << osArgs, exitCode, inputName, outputName, ins, input,
                    output, fwdCreated, sigReg, sigChan, gpc, ctxDone, inOpen,
                    outOpen, inCloses, outCloses, listening, startErr, waited,
                    msg, sent, sendOk, gotMsg, sendFailed, valVars, vpVars, otherVars >>

\* NewForwarder: the input loop and the `input == nil` check
NF_FindInput ==
    /\ pc = "nf_findin" /\ exitCode = Running
    /\ input' = FindPort(ins, inputName)
    /\ IF input' = 0
       THEN nfErr' = "input port not found" /\ pc' = "nf_return"
       ELSE pc' = "nf_findout" /\ UNCHANGED nfErr
    /\ UNCHANGED << osArgs, exitCode, inputName, outputName, ins, outs,
                    output, fwdCreated, sigReg, sigChan, gpc, ctxDone, inOpen,
                    outOpen, inCloses, outCloses, listening, startErr, waited,
                    msg, sent, sendOk, gotMsg, sendFailed, valVars, vpVars, otherVars >>

\* NewForwarder: the output loop and the `output == nil` check
NF_FindOutput ==
    /\ pc = "nf_findout" /\ exitCode = Running
    /\ output' = FindPort(outs, outputName)
    /\ IF output' = 0
       THEN nfErr' = "output port not found" /\ pc' = "nf_return"
       ELSE pc' = "nf_return" /\ UNCHANGED nfErr
    /\ UNCHANGED << osArgs, exitCode, inputName, outputName, ins, outs,
                    input, fwdCreated, sigReg, sigChan, gpc, ctxDone, inOpen,
                    outOpen, inCloses, outCloses, listening, startErr, waited,
                    msg, sent, sendOk, gotMsg, sendFailed, valVars, vpVars, otherVars >>

\* NewForwarder returns (nil, err) or (&Forwarder{input, output}, nil); its
\* locals ins and outs end with it
NF_Return ==
    /\ pc = "nf_return" /\ exitCode = Running
    /\ ins' = << >> /\ outs' = << >>
    /\ IF nfErr # ""
       THEN /\ input' = 0 /\ output' = 0
            /\ UNCHANGED fwdCreated
       ELSE /\ fwdCreated' = TRUE
            /\ UNCHANGED << input, output >>
    /\ pc' = "hfc_new"
    /\ UNCHANGED << osArgs, exitCode, inputName, outputName, nfErr,
                    sigReg, sigChan, gpc, ctxDone, inOpen,
                    outOpen, inCloses, outCloses, listening, startErr, waited,
                    msg, sent, sendOk, gotMsg, sendFailed, valVars, vpVars, otherVars >>

\* handleForwardCommand after NewForwarder: log.Fatalf on an error, else the
\* context, signal.Notify and the signal goroutine
HFC_Setup ==
    /\ pc = "hfc_new" /\ exitCode = Running
    /\ IF nfErr # ""
       THEN /\ Exit(1)
            /\ UNCHANGED << sigReg, gpc >>
       ELSE /\ sigReg' = TRUE
            /\ gpc' = "recv"
            /\ pc' = "st_openin"
            /\ UNCHANGED exitCode
    /\ UNCHANGED << osArgs, inputName, outputName, ins, outs, input, output,
                    nfErr, fwdCreated, sigChan, ctxDone, inOpen,
                    outOpen, inCloses, outCloses, listening, startErr, waited,
                    msg, sent, sendOk, gotMsg, sendFailed, valVars, vpVars, otherVars >>


\* SIGINT or SIGTERM arrives after signal.Notify: it is buffered in sigChan
\* (a signal that finds the buffer full is dropped)
Signal ==
    /\ sigReg /\ exitCode = Running
    /\ sigChan = 0
    /\ sigChan' = 1
    /\ UNCHANGED << osArgs, pc, exitCode, inputName, outputName, ins, outs,
                    input, output, nfErr, fwdCreated, sigReg, gpc, ctxDone,
                    inOpen, outOpen, inCloses, outCloses, listening, startErr,
                    waited, msg, sent, sendOk, gotMsg, sendFailed, valVars, vpVars, otherVars >>

\* the goroutine of handleForwardCommand: <-sigChan; cancel()
SignalGoroutine ==
    /\ gpc = "recv" /\ exitCode = Running
    /\ sigChan = 1
    /\ sigChan' = 0
    /\ ctxDone' = TRUE
    /\ gpc' = "done"
    /\ UNCHANGED << osArgs, pc, exitCode, inputName, outputName, ins, outs,
                    input, output, nfErr, fwdCreated, sigReg,
                    inOpen, outOpen, inCloses, outCloses, listening, startErr,
                    waited, msg, sent, sendOk, gotMsg, sendFailed, valVars, vpVars, otherVars >>

\* Start: mf.input.Open(); on an error Start returns with nothing deferred
Start_OpenInput ==
    /\ pc = "st_openin" /\ exitCode = Running
    /\ \/ /\ inOpen' = TRUE
          /\ pc' = "st_openout"
          /\ UNCHANGED startErr
       \/ /\ startErr' = "failed to open input port"
          /\ pc' = "hfc_started"
          /\ UNCHANGED inOpen
    /\ UNCHANGED << osArgs, exitCode, inputName, outputName, ins, outs,
                    input, output, nfErr, fwdCreated, sigReg, sigChan, gpc,
                    ctxDone, outOpen, inCloses, outCloses, listening,
                    waited, msg, sent, sendOk, gotMsg, sendFailed, valVars, vpVars, otherVars >>

\* Start: mf.output.Open(); on an error Start returns through the deferred
\* mf.input.Close()
Start_OpenOutput ==
    /\ pc = "st_openout" /\ exitCode = Running
    /\ \/ /\ outOpen' = TRUE
          /\ pc' = "st_listen"
          /\ UNCHANGED startErr
       \/ /\ startErr' = "failed to open output port"
          /\ pc' = "defer_closein"
          /\ UNCHANGED outOpen
    /\ UNCHANGED << osArgs, exitCode, inputName, outputName, ins, outs,
                    input, output, nfErr, fwdCreated, sigReg, sigChan, gpc,
                    ctxDone, inOpen, inCloses, outCloses, listening,
                    waited, msg, sent, sendOk, gotMsg, sendFailed, valVars, vpVars, otherVars >>

\* Start: mf.input.Listen(callback); on an error Start returns through the
\* deferred mf.output.Close() and mf.input.Close()
Start_Listen ==
    /\ pc = "st_listen" /\ exitCode = Running
    /\ \/ /\ listening' = TRUE
          /\ waited' = TRUE
          /\ pc' = "st_wait"
          /\ UNCHANGED startErr
       \/ /\ startErr' = "failed to start listening"
          /\ pc' = "defer_closeout"
          /\ UNCHANGED << listening, waited >>
    /\ UNCHANGED << osArgs, exitCode, inputName, outputName, ins, outs,
                    input, output, nfErr, fwdCreated, sigReg, sigChan, gpc,
                    ctxDone, inOpen, outOpen, inCloses, outCloses,
                    msg, sent, sendOk, gotMsg, sendFailed, valVars, vpVars, otherVars >>

\* Start_Wait when stopFn is not deferred
Start_Wait_NoStopFn ==
    /\ pc = "st_wait" /\ exitCode = Running
    /\ ctxDone
    /\ pc' = "defer_closeout"
    /\ UNCHANGED << osArgs, exitCode, inputName, outputName, ins, outs,
                    input, output, nfErr, fwdCreated, sigReg, sigChan, gpc,
                    ctxDone, inOpen, outOpen, inCloses, outCloses, listening,
                    startErr, waited, msg, sent, sendOk, gotMsg, sendFailed,
                    valVars, vpVars, otherVars >>

\* Start: <-ctx.Done() returns once the context is cancelled; Start returns
\* nil through its deferred calls
Start_Wait ==
    /\ pc = "st_wait" /\ exitCode = Running
    /\ ctxDone
    /\ pc' = "defer_stop"
    /\ UNCHANGED << osArgs, exitCode, inputName, outputName, ins, outs,
                    input, output, nfErr, fwdCreated, sigReg, sigChan, gpc,
                    ctxDone, inOpen, outOpen, inCloses, outCloses, listening,
                    startErr, waited, msg, sent, sendOk, gotMsg, sendFailed,
                    valVars, vpVars, otherVars >>

\* defer stopFn()
Defer_stopFn ==
    /\ pc = "defer_stop" /\ exitCode = Running
    /\ listening' = FALSE
    /\ pc' = "defer_closeout"
    /\ UNCHANGED << osArgs, exitCode, inputName, outputName, ins, outs,
                    input, output, nfErr, fwdCreated, sigReg, sigChan, gpc,
                    ctxDone, inOpen, outOpen, inCloses, outCloses,
                    startErr, waited, msg, sent, sendOk, gotMsg, sendFailed,
                    valVars, vpVars, otherVars >>

\* defer mf.output.Close()
Defer_outputClose ==
    /\ pc = "defer_closeout" /\ exitCode = Running
    /\ outOpen' = FALSE
    /\ outCloses' = outCloses + 1
    /\ pc' = "defer_closein"
    /\ UNCHANGED << osArgs, exitCode, inputName, outputName, ins, outs,
                    input, output, nfErr, fwdCreated, sigReg, sigChan, gpc,
                    ctxDone, inOpen, inCloses, listening,
                    startErr, waited, msg, sent, sendOk, gotMsg, sendFailed,
                    valVars, vpVars, otherVars >>

\* defer mf.input.Close()
Defer_inputClose ==
    /\ pc = "defer_closein" /\ exitCode = Running
    /\ inOpen' = FALSE
    /\ inCloses' = inCloses + 1
    /\ pc' = "hfc_started"
    /\ UNCHANGED << osArgs, exitCode, inputName, outputName, ins, outs,
                    input, output, nfErr, fwdCreated, sigReg, sigChan, gpc,
                    ctxDone, outOpen, outCloses, listening,
                    startErr, waited, msg, sent, sendOk, gotMsg, sendFailed,
                    valVars, vpVars, otherVars >>

\* handleForwardCommand after Start: log.Fatalf on an error; else it returns
\* through the deferred cancel() and main returns
HFC_AfterStart_ExitZero ==
    /\ pc = "hfc_started" /\ exitCode = Running
    /\ ctxDone' = TRUE
    /\ Exit(0)
    /\ UNCHANGED << osArgs, inputName, outputName, ins, outs,
                    input, output, nfErr, fwdCreated, sigReg, sigChan, gpc,
                    inOpen, outOpen, inCloses, outCloses, listening,
                    startErr, waited, msg, sent, sendOk, gotMsg, sendFailed,
                    valVars, vpVars, otherVars >>

HFC_AfterStart ==
    /\ pc = "hfc_started" /\ exitCode = Running
    /\ IF startErr # ""
       THEN Exit(1) /\ UNCHANGED ctxDone
       ELSE ctxDone' = TRUE /\ Exit(0)
    /\ UNCHANGED << osArgs, inputName, outputName, ins, outs,
                    input, output, nfErr, fwdCreated, sigReg, sigChan, gpc,
                    inOpen, outOpen, inCloses, outCloses, listening,
                    startErr, waited, msg, sent, sendOk, gotMsg, sendFailed,
                    valVars, vpVars, otherVars >>

\* the driver delivers a message to the Listen callback of Start, which
\* passes what ForwarderCallback gives to mf.output.Send; a Send that fails
\* is logged and the callback returns
OnMessage_StopOnSendError ==
    /\ listening /\ exitCode = Running
    /\ \E m \in DriverMessages, ok \in BOOLEAN :
          /\ msg' = m
          /\ sent' = ForwarderCallback(m)
          /\ sendOk' = (sent' = << >> \/ ok)
          /\ sendFailed' = (sendFailed \/ ~sendOk')
          /\ listening' = sendOk'
    /\ gotMsg' = TRUE
    /\ UNCHANGED << osArgs, pc, exitCode, inputName, outputName, ins, outs,
                    input, output, nfErr, fwdCreated, sigReg, sigChan, gpc,
                    ctxDone, inOpen, outOpen, inCloses, outCloses,
                    startErr, waited, valVars, vpVars, otherVars >>

OnMessage ==
    /\ listening /\ exitCode = Running
    /\ \E m \in DriverMessages, ok \in BOOLEAN :
          /\ msg' = m
          /\ sent' = ForwarderCallback(m)
          /\ sendOk' = (sent' = << >> \/ ok)
          /\ sendFailed' = (sendFailed \/ ~sendOk')
    /\ gotMsg' = TRUE
    /\ UNCHANGED << osArgs, pc, exitCode, inputName, outputName, ins, outs,
                    input, output, nfErr, fwdCreated, sigReg, sigChan, gpc,
                    ctxDone, inOpen, outOpen, inCloses, outCloses, listening,
                    startErr, waited, valVars, vpVars, otherVars >>

Next ==
    \/ main \/ listPorts \/ handleForwardCommand
    \/ NF_Ins \/ NF_Outs \/ NF_FindInput \/ NF_FindOutput \/ NF_Return
    \/ HFC_Setup \/ Signal \/ SignalGoroutine
    \/ Start_OpenInput \/ Start_OpenOutput \/ Start_Listen \/ Start_Wait
    \/ Defer_stopFn \/ Defer_outputClose \/ Defer_inputClose
    \/ HFC_AfterStart
    \/ OnMessage

Spec == Init /\ [][Next]_vars


(***************************************************************************)
(* SpecVP: one VirtualPort, from NewVirtualPort to the return of Start.    *)
(***************************************************************************)
InitVP ==
    /\ ProcIdle /\ ValIdle /\ OtherIdle
    /\ vpPc = "new" /\ vpErr = ""
    /\ vpInOpen = FALSE /\ vpOutOpen = FALSE
    /\ vpCtxDone = FALSE /\ vpListening = FALSE
    /\ vpMsg = << >> /\ vpSent = << >> /\ vpSendOk = TRUE /\ vpGotMsg = FALSE

\* NewVirtualPort: the context and drivers.Get().(*rtmididrv.Driver)
NewVirtualPort_Driver ==
    /\ vpPc = "new"
    /\ \/ /\ vpPc' = "open_in"
          /\ UNCHANGED << vpErr, vpCtxDone >>
       \/ /\ vpCtxDone' = TRUE
          /\ vpErr' = "rtmididrv driver not available"
          /\ vpPc' = "failed"
    /\ UNCHANGED << vpInOpen, vpOutOpen, vpListening, vpMsg, vpSent,
                    vpSendOk, vpGotMsg, procVars, valVars, otherVars >>

\* NewVirtualPort: driver.OpenVirtualIn(name)
NewVirtualPort_OpenIn ==
    /\ vpPc = "open_in"
    /\ \/ /\ vpInOpen' = TRUE
          /\ vpPc' = "open_out"
          /\ UNCHANGED << vpErr, vpCtxDone >>
       \/ /\ vpCtxDone' = TRUE
          /\ vpErr' = "failed to create virtual MIDI input port"
          /\ vpPc' = "failed"
          /\ UNCHANGED vpInOpen
    /\ UNCHANGED << vpOutOpen, vpListening, vpMsg, vpSent,
                    vpSendOk, vpGotMsg, procVars, valVars, otherVars >>

\* NewVirtualPort: driver.OpenVirtualOut(name); on an error the input port
\* is closed
NewVirtualPort_OpenOut ==
    /\ vpPc = "open_out"
    /\ \/ /\ vpOutOpen' = TRUE
          /\ vpPc' = "created"
          /\ UNCHANGED << vpErr, vpCtxDone, vpInOpen >>
       \/ /\ vpCtxDone' = TRUE
          /\ vpInOpen' = FALSE
          /\ vpErr' = "failed to create virtual MIDI output port"
          /\ vpPc' = "failed"
          /\ UNCHANGED vpOutOpen
    /\ UNCHANGED << vpListening, vpMsg, vpSent,
                    vpSendOk, vpGotMsg, procVars, valVars, otherVars >>

\* the owner of the VirtualPort calls vp.cancel()
VP_Cancel ==
    /\ vpPc \in { "created", "wait" }
    /\ ~vpCtxDone
    /\ vpCtxDone' = TRUE
    /\ UNCHANGED << vpPc, vpErr, vpInOpen, vpOutOpen, vpListening, vpMsg,
                    vpSent, vpSendOk, vpGotMsg, procVars, valVars, otherVars >>

\* VirtualPort.Start: vp.inPort.Listen(callback)
VP_Start_Listen ==
    /\ vpPc = "created"
    /\ \/ /\ vpListening' = TRUE
          /\ vpPc' = "wait"
          /\ UNCHANGED vpErr
       \/ /\ vpErr' = "failed to start listening on input port"
          /\ vpPc' = "done"
          /\ UNCHANGED vpListening
    /\ UNCHANGED << vpInOpen, vpOutOpen, vpCtxDone, vpMsg, vpSent,
                    vpSendOk, vpGotMsg, procVars, valVars, otherVars >>

\* VirtualPort.Start: <-vp.ctx.Done(), the "Closing virtual MIDI port" log
\* line, and the return of nil through the deferred stopFn()
VP_Start_Return ==
    /\ vpPc = "wait"
    /\ vpCtxDone
    /\ vpListening' = FALSE
    /\ vpPc' = "done"
    /\ UNCHANGED << vpErr, vpInOpen, vpOutOpen, vpCtxDone, vpMsg, vpSent,
                    vpSendOk, vpGotMsg, procVars, valVars, otherVars >>

\* the driver delivers a message to the Listen callback of
\* VirtualPort.Start
VP_OnMessage ==
    /\ vpListening
    /\ \E m \in DriverMessages, ok \in BOOLEAN :
          /\ vpMsg' = m
          /\ vpSent' = VirtualPortCallback(m)
          /\ vpSendOk' = (vpSent' = << >> \/ ok)
    /\ vpGotMsg' = TRUE
    /\ UNCHANGED << vpPc, vpErr, vpInOpen, vpOutOpen, vpCtxDone, vpListening,
                    procVars, valVars, otherVars >>

NextVP ==
    \/ NewVirtualPort_Driver \/ NewVirtualPort_OpenIn \/ NewVirtualPort_OpenOut
    \/ VP_Cancel \/ VP_Start_Listen \/ VP_Start_Return
    \/ VP_OnMessage

SpecVP == InitVP /\ [][NextVP]_vars


(***************************************************************************)
(* The validator as the specification describes it (section 4.1): what it  *)
(* accepts, as the sequence holding the accepted (possibly transformed)    *)
(* message, or the empty sequence for Invalid.                             *)
(***************************************************************************)
\* the fixed length of a system-common or real-time status byte, 0 for a
\* byte that has none
FixedLength(b) ==
    CASE b \in {246, 248, 250, 251, 252} -> 1
      [] b \in {241, 243} -> 2
      [] b = 242 -> 3
      [] OTHER -> 0

MessageValidator(m) ==
    IF Len(m) = 0 THEN << >>
    ELSE LET status == HighNibble(m[1]) IN
         CASE status \in {128, 144, 160, 176, 224} ->
                IF Len(m) = 3 THEN << m >> ELSE << >>
           [] status = 208 ->
                IF Len(m) = 2 THEN << m >> ELSE << >>
           [] status = 192 ->
                IF Len(m) \in {2, 3} THEN << Prefix(m, 2) >> ELSE << >>
           [] m[1] = 240 -> << m >>
           [] FixedLength(m[1]) > 0 ->
                IF Len(m) = FixedLength(m[1]) THEN << m >> ELSE << >>
           [] OTHER -> << >>

\* the steps of the main goroutine
MainGoroutine ==
    \/ main \/ listPorts \/ handleForwardCommand
    \/ NF_Ins \/ NF_Outs \/ NF_FindInput \/ NF_FindOutput \/ NF_Return
    \/ HFC_Setup
    \/ Start_OpenInput \/ Start_OpenOutput \/ Start_Listen \/ Start_Wait
    \/ Defer_stopFn \/ Defer_outputClose \/ Defer_inputClose
    \/ HFC_AfterStart

(***************************************************************************)
(* Claims                                                                  *)
(***************************************************************************)

\* C1: a system-common or real-time message is valid exactly when its length
\* is the fixed length of its status byte (1 for 0xF6 0xF8 0xFA 0xFB 0xFC, 2
\* for 0xF1 0xF3, 3 for 0xF2), and the clock message [0xF8] is forwarded
\* unchanged.  isValidMIDIMessage rejects every system message shorter than
\* 2 bytes and then switches on the second byte, so TLC refutes this.
C1_SystemMessageFixedLength ==
    /\ (vChecked /\ Len(vIn) > 0 /\ FixedLength(vIn[1]) > 0)
          => (vValid <=> Len(vIn) = FixedLength(vIn[1]))
    /\ (vHandled /\ vIn = << 248 >>) => vSends = << vIn >>

\* C2: nothing is sent to the output for a message the validator classifies
\* Invalid: empty, first byte without a recognized status, length not that
\* of its type (a program change of 1 byte or of 4 or more included).  The
\* callback sends the first 2 bytes of every program change of 2 or more
\* bytes, so TLC refutes this.
C2_InvalidNeverSent ==
    (gotMsg /\ MessageValidator(msg) = << >>) => ~(sent # << >> /\ sendOk)

\* C3: a sequence whose first byte has high nibble 0x8, 0x9, 0xA, 0xB or 0xE
\* is accepted iff it has exactly 3 bytes, one with high nibble 0xD iff it
\* has exactly 2; the low nibble and the data bytes play no part.
C3_ChannelVoiceLength ==
    (vChecked /\ Len(vIn) > 0) =>
        /\ HighNibble(vIn[1]) \in {128, 144, 160, 176, 224}
              => (vValid <=> Len(vIn) = 3)
        /\ HighNibble(vIn[1]) = 208
              => (vValid <=> Len(vIn) = 2)

\* [0x90,0x40,0x7F] has been validated and found valid
C3_Witness ==
    vChecked /\ vIn = << 144, 64, 127 >> /\ vValid

\* C4: a program change of 3 bytes is accepted and sent as its first 2
\* bytes; one of 2 bytes is sent unchanged.
C4_ProgramChangeTruncated ==
    (gotMsg /\ Len(msg) \in {2, 3} /\ HighNibble(msg[1]) = 192)
        => sent = << << msg[1], msg[2] >> >>

\* [0xC0,0x07,0x40] has arrived and [0xC0,0x07] has been sent
C4_Witness ==
    /\ gotMsg /\ msg = << 192, 7, 64 >>
    /\ sent = << << 192, 7 >> >> /\ sendOk

\* C5: a message whose first byte is 0xF0 is accepted whatever its length
\* and the bytes after it, and is forwarded unchanged.  isValidMIDIMessage
\* accepts it only when the SECOND byte is 0xF0, so TLC refutes this.
C5_SysExAccepted ==
    /\ (vChecked /\ Len(vIn) > 0 /\ vIn[1] = 240) => vValid
    /\ (vHandled /\ Len(vIn) > 0 /\ vIn[1] = 240) => vSends = << vIn >>

\* C6: NewForwarder resolves the input among the inputs and the output among
\* the outputs, each to the first port in enumeration order with the
\* requested name; when a direction has no port of that name it fails with a
\* not-found error, no Forwarder is created and no port is opened.
C6_FirstMatchOrNotFound ==
    /\ (pc \in {"nf_findout", "nf_return"} /\ input # 0) =>
          /\ ins[input] = inputName
          /\ \A j \in 1..(input - 1) : ins[j] # inputName
    /\ (pc = "nf_return" /\ output # 0) =>
          /\ outs[output] = outputName
          /\ \A j \in 1..(output - 1) : outs[j] # outputName
    /\ (pc = "nf_return" /\ nfErr = "") => (input # 0 /\ output # 0)
    /\ (pc = "nf_return" /\ input = 0 /\ nfErr # "failed to get MIDI inputs"
                         /\ nfErr # "failed to get MIDI outputs") =>
          /\ nfErr = "input port not found"
          /\ \A j \in 1..Len(ins) : ins[j] # inputName
    /\ (pc = "nf_return" /\ input # 0 /\ output = 0
                         /\ nfErr # "failed to get MIDI outputs") =>
          /\ nfErr = "output port not found"
          /\ \A j \in 1..Len(outs) : outs[j] # outputName
    /\ nfErr # "" =>
          (~fwdCreated /\ ~inOpen /\ ~outOpen /\ ~listening /\ ~waited)

\* two inputs carry the requested name, and the first of them was taken
C6_Witness ==
    /\ pc = "nf_return" /\ nfErr = ""
    /\ Len(ins) = 2 /\ ins[1] = inputName /\ ins[2] = inputName
    /\ input = 1 /\ output # 0

\* C7: `mc fwd` exits with code 0 only after a clean shutdown (Start
\* succeeded and returned because of the shutdown signal) and with a
\* non-zero code on every startup failure (port not resolved, open failure,
\* listen failure, missing arguments); after a startup failure it never
\* reaches the wait for shutdown and no step of it blocks before the exit.
C7_ExitCodeContract ==
    LET fwd == Len(osArgs) >= 2 /\ osArgs[2] = "fwd"
        failed == nfErr # "" \/ startErr # ""
    IN  /\ (fwd /\ exitCode = 0) =>
              (waited /\ gpc = "done" /\ fwdCreated /\ ~failed)
        /\ (pc = "exited" /\ (failed \/ Len(osArgs) < 2
                                     \/ (fwd /\ Len(osArgs) < 4)))
              => exitCode = 1
        /\ failed => (~waited /\ pc # "st_wait")
        /\ (failed /\ exitCode = Running) => ENABLED MainGoroutine

\* the output port failed to open and the process has exited with code 1
C7_Witness ==
    /\ startErr = "failed to open output port"
    /\ pc = "exited" /\ exitCode = 1

C9_ShutdownClosesEveryPort ==
    /\ (exitCode = 0 /\ waited) => (~inOpen /\ ~outOpen /\ ~listening)
    /\ (vpPc = "done" /\ vpCtxDone /\ vpErr = "")
          => (~vpInOpen /\ ~vpOutOpen /\ ~vpListening)

\* C10: a virtual port delivers a received message only if the validator
\* accepts it; an Invalid message is delivered to no target.  The callback
\* of VirtualPort.Start sends every message, so TLC refutes this.
C10_VirtualPortValidates ==
    (vpGotMsg /\ MessageValidator(vpMsg) = << >>)
        => ~(vpSent # << >> /\ vpSendOk)

(***************************************************************************)
(* SpecLog: the Listen callback of Forwarder.Start while it is registered, *)
(* with the record of the messages delivered and of the Send calls made.   *)
(***************************************************************************)
\* messages the driver delivers in one run of SpecLog
MaxMsgs == 2

\* the messages delivered in SpecLog: as DriverMessages, with one data byte
LogMessages ==
    { << >> } \cup
    { << b >> \o d : b \in FirstBytes, d \in SeqsUpTo({ 64 }, MaxLen - 1) }

InitLog ==
    /\ ProcIdle /\ ValIdle /\ VPIdle /\ MgrIdle /\ PipeIdle /\ FanIdle /\ BarIdle
    /\ fRecv = << >> /\ fSent = << >>

\* the driver delivers m to the callback, which makes the Send calls of
\* ForwarderCallback(m)
Callback_Logged ==
    /\ Len(fRecv) < MaxMsgs
    /\ \E m \in LogMessages :
          LET calls == ForwarderCallback(m) IN
          /\ fRecv' = Append(fRecv, m)
          /\ fSent' = fSent \o
                [ i \in 1..Len(calls) |->
                    [ idx |-> Len(fRecv) + 1, bytes |-> calls[i] ] ]
    /\ UNCHANGED << procVars, valVars, vpVars, mgrVars, pipeVars, fanVars, barVars >>

NextLog == Callback_Logged

SpecLog == InitLog /\ [][NextLog]_vars

\* C19: on every exit path of Forwarder.Start each port Start opened is
\* closed exactly once and a port never opened is never closed (a Close is
\* called only on an open port, at most once, and none is open once Start
\* has returned); the listener is stopped before the output is closed and
\* the output before the input, so the callback never runs, and nothing is
\* sent, with the output closed.
C19_ClosedExactlyOnceInOrder ==
    /\ [](listening => (inOpen /\ outOpen))
    /\ [](inCloses <= 1 /\ outCloses <= 1)
    /\ [](pc \in {"hfc_started", "exited"}
            => (~inOpen /\ ~outOpen /\ ~listening))
    /\ [][outCloses' # outCloses => (outOpen /\ ~listening)]_vars
    /\ [][inCloses' # inCloses => (inOpen /\ ~outOpen /\ ~listening)]_vars
    /\ [][(<< msg, sent, sendOk, gotMsg >>' # << msg, sent, sendOk, gotMsg >>
             /\ sent' # << >>) => outOpen]_vars

\* Start has returned after a shutdown during which a message was forwarded:
\* both ports were closed once
C19_Witness ==
    /\ pc = "hfc_started" /\ startErr = "" /\ gotMsg /\ sent # << >>
    /\ inCloses = 1 /\ outCloses = 1 /\ ~inOpen /\ ~outOpen

\* C20: for each message received at most one message is sent, and it is
\* the received message byte for byte or, for a program change, its first 2
\* bytes; so the Send calls follow the order of the received messages.
C20_SentFollowsReceived ==
    /\ \A i \in 1..Len(fSent) :
          LET m == fRecv[fSent[i].idx] IN
          /\ Len(m) > 0
          /\ \/ fSent[i].bytes = m
             \/ /\ HighNibble(m[1]) = 192 /\ Len(m) >= 2
                /\ fSent[i].bytes = << m[1], m[2] >>
    /\ \A i, j \in 1..Len(fSent) : i < j => fSent[i].idx < fSent[j].idx

\* a note on and then a 3-byte program change were received; the first was
\* sent as it is, the second as its first 2 bytes
C20_Witness ==
    /\ fRecv = << << 144, 64, 64 >>, << 192, 64, 64 >> >>
    /\ Len(fSent) = 2
    /\ fSent[1].bytes = << 144, 64, 64 >>
    /\ fSent[2].bytes = << 192, 64 >>

(***************************************************************************)
(* SpecMgr: the connection manager of the TUI application (MidiManager in  *)
(* docs/architecture.md, ConnectionManager with PortRegistry and the       *)
(* cascade of HotPlugMonitor in the specification).  Its implementation is *)
(* not among the sources; the definitions follow docs/architecture.md      *)
(* where it speaks and sections 3, 4.5 and 4.6 of the specification        *)
(* elsewhere.                                                              *)
(***************************************************************************)
\* connections created in one run
MaxConns == 2
\* calls of remove on one connection id
MaxRemoves == 2

\* the ports: one virtual pair of the application, one hardware input and
\* one hardware output
VirtualNames == { "mc-in-a", "mc-out-a" }

InputNames == { "mc-in-a", "hw-in" }

OutputNames == { "mc-out-a", "hw-out" }

\* an enumeration holds the application's own virtual ports and any of the
\* hardware ports
Snapshots == { VirtualNames \cup h : h \in SUBSET { "hw-in", "hw-out" } }

Origin(p) == IF p \in VirtualNames THEN "AppVirtual" ELSE "External"

\* the strategy table: by the origin of the source and of the destination
SelectStrategy_ByDestination(so, do) ==
    IF do = "AppVirtual" THEN "InProcess"
    ELSE IF so = "AppVirtual" THEN "PipeWorker" ELSE "RelayWorker"

SelectStrategy(so, do) ==
    IF so = "AppVirtual"
    THEN IF do = "AppVirtual" THEN "InProcess" ELSE "PipeWorker"
    ELSE "RelayWorker"

\* a connection as add builds it
ConnInit(s, d) ==
    [ src      |-> s,
      dst      |-> d,
      strategy |-> SelectStrategy(Origin(s), Origin(d)),
      status   |-> "Starting",
      handle   |-> "none",      \* WorkerHandle: none, held, released
      alive    |-> FALSE,       \* the worker process is running
      releases |-> 0,           \* times the handle was closed or killed
      anomaly  |-> FALSE,       \* a kill found the process already gone
      removes  |-> 0,           \* calls of remove(id)
      evStatus |-> 0,           \* ConnectionStatusChanged(id, Active|Failed)
      evClosed |-> 0 ]          \* ConnectionStatusChanged(id, Closed)

\* the teardown of an Active connection, by remove or by the cascade:
\* InProcess deregisters its target, PipeWorker closes the write handle,
\* RelayWorker is killed (a kill of a process that has exited is tolerated);
\* one Closed event
Teardown(c) ==
    [ c EXCEPT !.status = "Closed",
               !.handle = IF c.handle = "held" THEN "released" ELSE c.handle,
               !.releases = IF c.handle = "held" THEN c.releases + 1
                            ELSE c.releases,
               !.anomaly = (c.strategy = "RelayWorker" /\ ~c.alive),
               !.alive = FALSE,
               !.evClosed = c.evClosed + 1 ]

InitMgr ==
    /\ ProcIdle /\ ValIdle /\ VPIdle /\ LogIdle /\ PipeIdle /\ FanIdle /\ BarIdle
    /\ snapshot \in Snapshots
    /\ conns = << >>

\* add(source, destination): the Connection is built, Starting
Add_Begin ==
    /\ Len(conns) < MaxConns
    /\ \E s \in InputNames, d \in OutputNames :
          conns' = Append(conns, ConnInit(s, d))
    /\ UNCHANGED << snapshot, procVars, valVars, vpVars, logVars, pipeVars, fanVars, barVars >>

\* add(source, destination): the strategy is executed; a port that is not in
\* the registry (PortNotFound) or a worker that does not start
\* (SpawnFailure) fails the connection; the status event is emitted
Add_Finish ==
    /\ \E id \in 1..Len(conns) :
          LET c == conns[id] IN
          /\ c.status = "Starting"
          /\ \/ /\ c.src \in snapshot /\ c.dst \in snapshot
                /\ conns' = [ conns EXCEPT ![id] =
                     [ c EXCEPT !.status = "Active",
                                !.handle = IF c.strategy = "InProcess"
                                           THEN "none" ELSE "held",
                                !.alive = (c.strategy # "InProcess"),
                                !.evStatus = c.evStatus + 1 ] ]
             \/ /\ \/ c.src \notin snapshot
                   \/ c.dst \notin snapshot
                   \/ c.strategy # "InProcess"
                /\ conns' = [ conns EXCEPT ![id] =
                     [ c EXCEPT !.status = "Failed",
                                !.evStatus = c.evStatus + 1 ] ]
    /\ UNCHANGED << snapshot, procVars, valVars, vpVars, logVars, pipeVars, fanVars, barVars >>

\* the process of a relay worker ends without having been killed
Worker_Exits ==
    /\ \E id \in 1..Len(conns) :
          /\ conns[id].status = "Active"
          /\ conns[id].strategy = "RelayWorker"
          /\ conns[id].alive
          /\ conns' = [ conns EXCEPT ![id].alive = FALSE ]
    /\ UNCHANGED << snapshot, procVars, valVars, vpVars, logVars, pipeVars, fanVars, barVars >>

\* remove(id) that tears down whatever the status is
Remove_Unguarded ==
    /\ \E id \in 1..Len(conns) :
          LET c == conns[id] IN
          /\ c.status \in { "Active", "Closed" }
          /\ c.removes < MaxRemoves
          /\ conns' = [ conns EXCEPT ![id] =
                          [ Teardown(c) EXCEPT !.removes = c.removes + 1 ] ]
    /\ UNCHANGED << snapshot, procVars, valVars, vpVars, logVars, pipeVars, fanVars, barVars >>

\* remove(id), for an id that add returned: an Active connection is torn
\* down; for a connection already Closed nothing is left to do
Remove ==
    /\ \E id \in 1..Len(conns) :
          LET c == conns[id] IN
          /\ c.status \in { "Active", "Closed" }
          /\ c.removes < MaxRemoves
          /\ conns' = [ conns EXCEPT ![id] =
                          IF c.status = "Active"
                          THEN [ Teardown(c) EXCEPT !.removes = c.removes + 1 ]
                          ELSE [ c EXCEPT !.removes = c.removes + 1 ] ]
    /\ UNCHANGED << snapshot, procVars, valVars, vpVars, logVars, pipeVars, fanVars, barVars >>

\* a refresh that also reopens the Closed connections whose ports are back
Refresh_Reconnect ==
    /\ \E new \in Snapshots :
          /\ new # snapshot
          /\ snapshot' = new
          /\ conns' = [ id \in 1..Len(conns) |->
                          IF /\ conns[id].status = "Active"
                             /\ \/ conns[id].src \notin new
                                \/ conns[id].dst \notin new
                          THEN Teardown(conns[id])
                          ELSE IF /\ conns[id].status = "Closed"
                                  /\ conns[id].src \in new
                                  /\ conns[id].dst \in new
                               THEN [ conns[id] EXCEPT !.status = "Active" ]
                               ELSE conns[id] ]
    /\ UNCHANGED << procVars, valVars, vpVars, logVars, pipeVars, fanVars, barVars >>

\* a refresh that replaces the snapshot and leaves the connections alone
Refresh_NoCascade ==
    /\ \E new \in Snapshots :
          /\ new # snapshot
          /\ snapshot' = new
    /\ UNCHANGED << conns, procVars, valVars, vpVars, logVars, pipeVars, fanVars, barVars >>

\* a registry refresh with a changed enumeration: every Active connection
\* that references a port missing from it is torn down
Refresh ==
    /\ \E new \in Snapshots :
          /\ new # snapshot
          /\ snapshot' = new
          /\ conns' = [ id \in 1..Len(conns) |->
                          IF /\ conns[id].status = "Active"
                             /\ \/ conns[id].src \notin new
                                \/ conns[id].dst \notin new
                          THEN Teardown(conns[id])
                          ELSE conns[id] ]
    /\ UNCHANGED << procVars, valVars, vpVars, logVars, pipeVars, fanVars, barVars >>

NextMgr ==
    \/ Add_Begin \/ Add_Finish \/ Worker_Exits \/ Remove \/ Refresh

SpecMgr == InitMgr /\ [][NextMgr]_vars


Conn(id) == conns[id]

ConnIds == 1..Len(conns)

\* C11: the strategy of every connection is the one the table gives for the
\* origins of its source and destination: AppVirtual to AppVirtual is
\* InProcess, AppVirtual to External is PipeWorker, External to AppVirtual
\* and External to External are RelayWorker, whatever other connections
\* exist and whatever the enumeration shows.
C11_StrategyByOrigin ==
    \A id \in ConnIds :
       LET so == Origin(Conn(id).src)
           do == Origin(Conn(id).dst)
       IN /\ (so = "AppVirtual" /\ do = "AppVirtual")
                => Conn(id).strategy = "InProcess"
          /\ (so = "AppVirtual" /\ do = "External")
                => Conn(id).strategy = "PipeWorker"
          /\ (so = "External" /\ do = "AppVirtual")
                => Conn(id).strategy = "RelayWorker"
          /\ (so = "External" /\ do = "External")
                => Conn(id).strategy = "RelayWorker"

C11_Witness ==
    /\ Len(conns) = 2
    /\ Conn(1).src = "hw-in" /\ Conn(1).dst = "mc-out-a"
    /\ Conn(1).strategy = "RelayWorker" /\ Conn(1).status = "Active"
    /\ Conn(2).src = "mc-in-a" /\ Conn(2).dst = "hw-out"
    /\ Conn(2).strategy = "PipeWorker" /\ Conn(2).status = "Active"

\* C12: a connection is created Starting, and its status only ever changes
\* Starting to Active, Starting to Failed, or Active to Closed; Failed and
\* Closed are terminal, and no connection is forgotten or renumbered.
C12_StatusTransitions ==
    [][ /\ Len(conns') >= Len(conns)
        /\ \A id \in 1..Len(conns') :
              IF id \in ConnIds
              THEN \/ conns'[id].status = Conn(id).status
                   \/ << Conn(id).status, conns'[id].status >> \in
                         { << "Starting", "Active" >>,
                           << "Starting", "Failed" >>,
                           << "Active", "Closed" >> }
              ELSE conns'[id].status = "Starting" ]_vars

C12_Witness ==
    /\ Len(conns) = 2
    /\ Conn(1).status = "Closed" /\ Conn(1).removes = 2
    /\ Conn(2).status = "Failed"
    /\ Conn(2).src \in snapshot /\ Conn(2).dst \in snapshot

\* C13: once remove(id) has been called the connection is Closed, exactly
\* one Closed event has been emitted for it, and its worker handle has been
\* closed or killed exactly once, never twice; this holds after a second
\* remove(id) and when the worker process had exited before the kill.
C13_RemoveIdempotent ==
    \A id \in ConnIds :
       /\ Conn(id).releases <= 1
       /\ Conn(id).evClosed <= 1
       /\ Conn(id).removes >= 1 =>
             /\ Conn(id).status = "Closed"
             /\ Conn(id).evClosed = 1
             /\ Conn(id).handle # "held"
             /\ Conn(id).strategy # "InProcess" =>
                   (Conn(id).handle = "released" /\ Conn(id).releases = 1)

C13_Witness ==
    \E id \in ConnIds :
       /\ Conn(id).strategy = "RelayWorker"
       /\ Conn(id).removes = 2
       /\ Conn(id).anomaly
       /\ Conn(id).evClosed = 1
       /\ Conn(id).releases = 1

\* C14: a refresh that changes the snapshot closes every Active connection
\* that references a port missing from the new snapshot and emits exactly
\* one status event (Closed) for it; no Active connection ever references a
\* port that is absent from the snapshot.
C14_CascadingRemoval ==
    /\ [][ snapshot' # snapshot =>
              \A id \in ConnIds :
                 ( /\ Conn(id).status = "Active"
                   /\ \/ Conn(id).src \notin snapshot'
                      \/ Conn(id).dst \notin snapshot' )
                 => /\ conns'[id].status = "Closed"
                    /\ conns'[id].evClosed = Conn(id).evClosed + 1
                    /\ conns'[id].evStatus = Conn(id).evStatus ]_vars
    /\ [](\A id \in ConnIds :
             Conn(id).status = "Active" =>
                (Conn(id).src \in snapshot /\ Conn(id).dst \in snapshot))

C14_Witness ==
    \E id \in ConnIds :
       /\ Conn(id).status = "Closed"
       /\ Conn(id).removes = 0
       /\ Conn(id).evClosed = 1
       /\ Conn(id).dst = "hw-out"
       /\ "hw-out" \notin snapshot


(***************************************************************************)
(* SpecPipe: one pipe worker, the pipe to its stdin and the callback of    *)
(* the virtual input that owns the write end (docs/architecture.md,        *)
(* Variant A and Process Lifecycle: Pipe Worker).                          *)
(***************************************************************************)
PipeMessages == { << 248 >>, << 192, 7 >>, << 144, 64, 64 >> }

\* how the owner ends a worker: a pipe worker by dropping its stdin handle,
\* a regular worker by killing the child
TeardownSignal_AlwaysKill(strategy) == "kill"

TeardownSignal(strategy) ==
    IF strategy = "RelayWorker" THEN "kill" ELSE "close"

InitPipe ==
    /\ ProcIdle /\ ValIdle /\ VPIdle /\ LogIdle /\ MgrIdle /\ FanIdle /\ BarIdle
    /\ pwState = "Spawned"
    /\ pwExit = Running
    /\ pwKills = 0
    /\ wOpen = TRUE
    /\ pipe = << >>
    /\ pwCur = << >>
    /\ pwWritten = << >>
    /\ pwDecoded = << >>

\* Spawned --> Running --> Reading: the worker connects to the output port;
\* a worker that cannot find the output exits
PW_Connect ==
    /\ pwState = "Spawned"
    /\ \/ pwState' = "Reading" /\ pwExit' = pwExit
       \/ pwState' = "Exited" /\ pwExit' = 1
    /\ UNCHANGED << pwKills, wOpen, pipe, pwCur, pwWritten, pwDecoded >>
    /\ UNCHANGED << procVars, valVars, vpVars, logVars, mgrVars, fanVars, barVars >>

\* the callback of the virtual input: write_all(message) on the stdin handle
CB_Write ==
    /\ wOpen
    /\ pwState # "Exited"
    /\ Len(pwWritten) < MaxMsgs
    /\ \E m \in PipeMessages :
          /\ pipe' = pipe \o m
          /\ pwWritten' = Append(pwWritten, m)
    /\ UNCHANGED << pwState, pwExit, pwKills, wOpen, pwCur, pwDecoded >>
    /\ UNCHANGED << procVars, valVars, vpVars, logVars, mgrVars, fanVars, barVars >>

\* Reading --> Forwarding: stdin.read() returns with some of the bytes that
\* are in the pipe, at least one
PW_Read ==
    /\ pwState = "Reading"
    /\ pipe # << >>
    /\ \E n \in 1..Len(pipe) :
          /\ pwCur' = SubSeq(pipe, 1, n)
          /\ pipe' = SubSeq(pipe, n + 1, Len(pipe))
    /\ pwState' = "Forwarding"
    /\ UNCHANGED << pwExit, pwKills, wOpen, pwWritten, pwDecoded >>
    /\ UNCHANGED << procVars, valVars, vpVars, logVars, mgrVars, fanVars, barVars >>

\* Forwarding --> Reading: the received MIDI data is sent as one message
PW_Forward ==
    /\ pwState = "Forwarding"
    /\ pwDecoded' = Append(pwDecoded, pwCur)
    /\ pwState' = "Reading"
    /\ UNCHANGED << pwExit, pwKills, wOpen, pipe, pwCur, pwWritten >>
    /\ UNCHANGED << procVars, valVars, vpVars, logVars, mgrVars, fanVars, barVars >>

\* Reading --> Exiting: stdin closed (EOF): the pipe is empty and no write
\* end is open
PW_EOF ==
    /\ pwState = "Reading"
    /\ pipe = << >>
    /\ ~wOpen
    /\ pwState' = "Exited"
    /\ pwExit' = 0
    /\ UNCHANGED << pwKills, wOpen, pipe, pwCur, pwWritten, pwDecoded >>
    /\ UNCHANGED << procVars, valVars, vpVars, logVars, mgrVars, fanVars, barVars >>

\* the connection is removed: the owner ends the worker
Owner_Remove ==
    /\ wOpen
    /\ wOpen' = FALSE
    /\ IF TeardownSignal(SelectStrategy("AppVirtual", "External")) = "kill"
       THEN /\ pwKills' = pwKills + 1
            /\ pwState' = "Exited"
            /\ pwExit' = IF pwState = "Exited" THEN pwExit ELSE 137
       ELSE UNCHANGED << pwKills, pwState, pwExit >>
    /\ UNCHANGED << pipe, pwCur, pwWritten, pwDecoded >>
    /\ UNCHANGED << procVars, valVars, vpVars, logVars, mgrVars, fanVars, barVars >>

NextPipe ==
    \/ PW_Connect \/ CB_Write \/ PW_Read \/ PW_Forward \/ PW_EOF
    \/ Owner_Remove

SpecPipe == InitPipe /\ [][NextPipe]_vars

\* the worker is a process of its own: it is scheduled, and its read returns
\* when bytes are in the pipe or the pipe has reached its end
SpecPipeFair ==
    /\ InitPipe /\ [][NextPipe]_vars
    /\ WF_vars(PW_Connect) /\ WF_vars(PW_Read)
    /\ WF_vars(PW_Forward) /\ WF_vars(PW_EOF)

PW_Started == pwState \in { "Reading", "Forwarding" }

\* C15: a pipe worker that has connected ends on end-of-stream only: after
\* the owner has closed the write handle the worker eventually exits with
\* code 0, no kill signal is ever sent to it, and it does not exit while
\* the write handle is open or bytes are still in the pipe.
C15_ExitsOnEofOnly ==
    /\ (PW_Started /\ ~wOpen) ~> (pwState = "Exited" /\ pwExit = 0)
    /\ [](pwKills = 0)
    /\ [][ (PW_Started /\ pwState' = "Exited")
              => (~wOpen /\ pipe = << >> /\ pwExit' = 0) ]_vars

C15_Witness ==
    /\ pwState = "Exited" /\ pwExit = 0 /\ ~wOpen /\ pwKills = 0
    /\ Len(pwWritten) = 2 /\ Len(pwDecoded) >= 2

\* C16: whatever messages the producer writes and however the byte stream
\* is split into reads, once the worker has consumed everything written it
\* has handled exactly the messages written, in order: none split, none
\* merged.
C16_FramingPreserved ==
    (pipe = << >> /\ pwState \in { "Reading", "Exited" } /\ pwExit # 1)
       => pwDecoded = pwWritten


(***************************************************************************)
(* SpecFan: the receive callback of one virtual input and its two target   *)
(* lists (VirtualPorts in docs/architecture.md, VirtualPortPair in the     *)
(* specification).                                                         *)
(***************************************************************************)
\* targets registered on the virtual input at one time
MaxTargets == 3

FanMessages == { << 144, 64, 64 >>, << 192, 7, 64 >>, << 176, 7 >>, << >> }

\* a target as registered: fails says that every send to it fails; since is
\* the number of valid messages handled before it was registered
Target(f) ==
    [ fails  |-> f,
      status |-> "Active",      \* the status of the owning connection
      since  |-> fanValid,
      got    |-> 0,             \* messages it has received
      errs   |-> 0 ]            \* send errors logged for it

\* one send to a target
SendTo(t) ==
    IF t.fails THEN [ t EXCEPT !.errs = t.errs + 1 ]
    ELSE [ t EXCEPT !.got = t.got + 1 ]

\* a loop over the targets that returns at the first send error
FanOut_StopAtFirstError(ts) ==
    [ i \in 1..Len(ts) |->
        IF \E j \in 1..(i - 1) : ts[j].fails THEN ts[i] ELSE SendTo(ts[i]) ]

\* the loop over the targets of one list: every target is sent to, an error
\* is logged and the loop goes on
FanOut(ts) == [ i \in 1..Len(ts) |-> SendTo(ts[i]) ]

RemoveAt(ts, i) == SubSeq(ts, 1, i - 1) \o SubSeq(ts, i + 1, Len(ts))

InitFan ==
    /\ ProcIdle /\ ValIdle /\ VPIdle /\ LogIdle /\ MgrIdle /\ PipeIdle /\ BarIdle
    /\ fanInProc = << >>
    /\ fanPipes = << >>
    /\ fanValid = 0

\* a connection from the virtual input is added: an in-process target or
\* the stdin handle of a pipe worker is registered
Fan_Register ==
    /\ Len(fanInProc) + Len(fanPipes) < MaxTargets
    /\ \E f \in BOOLEAN :
          \/ fanInProc' = Append(fanInProc, Target(f)) /\ fanPipes' = fanPipes
          \/ fanPipes' = Append(fanPipes, Target(f)) /\ fanInProc' = fanInProc
    /\ UNCHANGED fanValid
    /\ UNCHANGED << procVars, valVars, vpVars, logVars, mgrVars, pipeVars, barVars >>

\* a connection from the virtual input is removed
Fan_Deregister ==
    /\ \/ \E i \in 1..Len(fanInProc) :
             fanInProc' = RemoveAt(fanInProc, i) /\ fanPipes' = fanPipes
       \/ \E i \in 1..Len(fanPipes) :
             fanPipes' = RemoveAt(fanPipes, i) /\ fanInProc' = fanInProc
    /\ UNCHANGED fanValid
    /\ UNCHANGED << procVars, valVars, vpVars, logVars, mgrVars, pipeVars, barVars >>

\* the callback of the virtual input, for one message: a valid message goes
\* to every in-process target and to every pipe worker
Fan_Callback ==
    /\ fanValid < MaxMsgs
    /\ \E m \in FanMessages :
          IF MessageValidator(m) = << >>
          THEN UNCHANGED << fanInProc, fanPipes, fanValid >>
          ELSE /\ fanInProc' = FanOut(fanInProc)
               /\ fanPipes' = FanOut(fanPipes)
               /\ fanValid' = fanValid + 1
    /\ UNCHANGED << procVars, valVars, vpVars, logVars, mgrVars, pipeVars, barVars >>

NextFan == Fan_Register \/ Fan_Deregister \/ Fan_Callback

SpecFan == InitFan /\ [][NextFan]_vars

FanTargets == fanInProc \o fanPipes

\* C17: a target whose sends always fail takes nothing from the others:
\* every registered target that does not fail has received every valid
\* message handled since it was registered, every failure was logged, and
\* the owning connection of every registered target is still Active.
C17_FanOutIsolated ==
    \A i \in 1..Len(FanTargets) :
       LET t == FanTargets[i] IN
       /\ t.status = "Active"
       /\ ~t.fails => (t.got = fanValid - t.since /\ t.errs = 0)
       /\ t.fails => (t.got = 0 /\ t.errs = fanValid - t.since)

C17_Witness ==
    /\ Len(fanInProc) = 2 /\ Len(fanPipes) = 1
    /\ fanValid = 2
    /\ fanInProc[1].fails /\ fanInProc[1].errs = 2
    /\ ~fanInProc[2].fails /\ fanInProc[2].got = 2
    /\ ~fanPipes[1].fails /\ fanPipes[1].got = 2


(***************************************************************************)
(* SpecBarrier: the startup of the application up to the default           *)
(* connections (docs/architecture.md, Startup Sequence; the startup        *)
(* barrier of HotPlugMonitor in the specification).                        *)
(***************************************************************************)
\* "Poll every 100ms (max 2s)"
PollIntervalMs == 100
TimeoutMs == 2000

BarPorts == { "mc-in-a", "mc-out-a", "mc-in-b", "mc-out-b" }

InitBarrier ==
    /\ ProcIdle /\ ValIdle /\ VPIdle /\ LogIdle /\ MgrIdle /\ PipeIdle /\ FanIdle
    /\ barPc = "start"
    /\ barElapsed = 0
    /\ barVisible = { }
    /\ barSeen = { }
    /\ barDegraded = FALSE
    /\ barLog = << >>
    /\ barWired = FALSE

\* Main->>VP: Create virtual ports; they become visible to other processes
\* later
Bar_Create ==
    /\ barPc = "start"
    /\ barPc' = "polling"
    /\ UNCHANGED << barElapsed, barVisible, barSeen, barDegraded, barLog, barWired >>
    /\ UNCHANGED << procVars, valVars, vpVars, logVars, mgrVars, pipeVars, fanVars >>

\* the system starts to enumerate one of the created ports
Bar_PortAppears ==
    /\ barPc # "start"
    /\ \E p \in BarPorts \ barVisible : barVisible' = barVisible \cup { p }
    /\ UNCHANGED << barPc, barElapsed, barSeen, barDegraded, barLog, barWired >>
    /\ UNCHANGED << procVars, valVars, vpVars, logVars, mgrVars, pipeVars, fanVars >>

\* a polling loop that only ends when the ports are there
Bar_Poll_NoTimeout ==
    /\ barPc = "polling"
    /\ barSeen' = barVisible
    /\ IF BarPorts \subseteq barVisible
       THEN barPc' = "refresh" /\ barElapsed' = barElapsed
       ELSE /\ barPc' = barPc
            /\ barElapsed' = IF barElapsed + PollIntervalMs >= TimeoutMs
                             THEN TimeoutMs
                             ELSE barElapsed + PollIntervalMs
    /\ UNCHANGED << barVisible, barDegraded, barLog, barWired >>
    /\ UNCHANGED << procVars, valVars, vpVars, logVars, mgrVars, pipeVars, fanVars >>

\* one turn of the polling loop: a list-ports subprocess is spawned and its
\* list checked for the virtual ports; the loop ends when all are present,
\* or else after the interval that reaches the timeout, degraded, with a
\* line in the log
Bar_Poll ==
    /\ barPc = "polling"
    /\ barSeen' = barVisible
    /\ IF BarPorts \subseteq barVisible
       THEN /\ barPc' = "refresh"
            /\ UNCHANGED << barElapsed, barDegraded, barLog >>
       ELSE /\ barElapsed' = barElapsed + PollIntervalMs
            /\ IF barElapsed + PollIntervalMs >= TimeoutMs
               THEN /\ barPc' = "refresh"
                    /\ barDegraded' = TRUE
                    /\ barLog' = Append(barLog, "virtual ports not visible")
               ELSE UNCHANGED << barPc, barDegraded, barLog >>
    /\ UNCHANGED << barVisible, barWired >>
    /\ UNCHANGED << procVars, valVars, vpVars, logVars, mgrVars, pipeVars, fanVars >>

\* Main->>Mgr: Refresh port lists
Bar_Refresh ==
    /\ barPc = "refresh"
    /\ barPc' = "wiring"
    /\ UNCHANGED << barElapsed, barVisible, barSeen, barDegraded, barLog, barWired >>
    /\ UNCHANGED << procVars, valVars, vpVars, logVars, mgrVars, pipeVars, fanVars >>

\* Main->>Mgr: Create default connections
Bar_Wire ==
    /\ barPc = "wiring"
    /\ barWired' = TRUE
    /\ barPc' = "ready"
    /\ UNCHANGED << barElapsed, barVisible, barSeen, barDegraded, barLog >>
    /\ UNCHANGED << procVars, valVars, vpVars, logVars, mgrVars, pipeVars, fanVars >>

NextBarrier ==
    \/ Bar_Create \/ Bar_PortAppears \/ Bar_Poll \/ Bar_Refresh \/ Bar_Wire

SpecBarrier == InitBarrier /\ [][NextBarrier]_vars

\* the main process runs; when the system shows the ports is not up to it
SpecBarrierFair ==
    /\ InitBarrier /\ [][NextBarrier]_vars
    /\ WF_vars(Bar_Create) /\ WF_vars(Bar_Poll)
    /\ WF_vars(Bar_Refresh) /\ WF_vars(Bar_Wire)

\* C18: the startup barrier always ends and default wiring follows: polls
\* are one fixed interval apart and never pass the timeout; polling ends at
\* the first enumeration that shows every virtual port, or at the timeout,
\* then degraded and with a log line; default wiring is never attempted
\* before one of the two.
C18_BarrierTerminates ==
    /\ <>barWired
    /\ [](barElapsed <= TimeoutMs)
    /\ [][ barElapsed' # barElapsed
              => barElapsed' = barElapsed + PollIntervalMs ]_vars
    /\ [][ (barPc = "polling" /\ barSeen' # barSeen /\ BarPorts \subseteq barSeen')
              => (barPc' # "polling" /\ ~barDegraded') ]_vars
    /\ [][ (barPc = "polling" /\ barPc' # "polling")
              => \/ BarPorts \subseteq barSeen' /\ ~barDegraded'
                 \/ /\ barDegraded' /\ barElapsed' = TimeoutMs
                    /\ Len(barLog') = Len(barLog) + 1 ]_vars
    /\ [](barDegraded => (barElapsed = TimeoutMs /\ barLog # << >>))
    /\ [](barPc \in { "wiring", "ready" }
             => (barDegraded \/ BarPorts \subseteq barSeen))
    /\ [](barWired => barPc = "ready")

C18_Witness ==
    /\ barWired /\ barDegraded
    /\ barElapsed = TimeoutMs
    /\ Len(barLog) = 1
    /\ ~(BarPorts \subseteq barSeen)

====
